---- MODULE Spec2Model ----
(***************************************************************************)
(* Model of src/src/client.rs: the Client configuration, Client::request   *)
(* (the redirect loop), Client::single_request (header defaults, scheme    *)
(* dispatch, resolution, connect, encode/decode) and the helpers           *)
(* connect_tcp, connect_tls, get_and_validate_socket_addresses and         *)
(* set_header_fallback.  The server, the resolver and the transport are    *)
(* the environment: their answers are chosen nondeterministically.         *)
(***************************************************************************)
EXTENDS Integers, Sequences, FiniteSets, TLC

(* ---------------- bounds of the model ---------------- *)

\* width in bits of the machine word (usize) holding the redirection limit
WordBits == 2
\* largest number of candidate endpoints the resolver returns
MaxAddrs == 2

(* ---------------- Option<T> ---------------- *)

None == <<>>
Some(x) == <<x>>
IsSome(o) == o # <<>>
Unwrap(o) == o[1]

(* ---------------- machine words ---------------- *)

RECURSIVE Pow2(_)
Pow2(n) == IF n = 0 THEN 1 ELSE 2 * Pow2(n - 1)

UsizeModulus == Pow2(WordBits)
UsizeMax == UsizeModulus - 1
Usize == 0 .. UsizeMax

\* usize addition as a release build computes it
wrapping_add(a, b) == (a + b) % UsizeModulus
\* a build with overflow checks panics where the sum does not fit
add_overflows(a, b) == a + b > UsizeMax

(* ---------------- model of crate::model values ---------------- *)

Methods == {"GET", "HEAD", "OPTIONS", "POST"}

\* Method::is_safe
is_safe(method) == method \in {"GET", "HEAD", "OPTIONS"}

MOVED_PERMANENTLY == 301
FOUND == 302
SEE_OTHER == 303
TEMPORARY_REDIRECT == 307
PERMANENT_REDIRECT == 308
OK == 200
NOT_FOUND == 404

Statuses == {OK, NOT_FOUND, MOVED_PERMANENTLY, FOUND, SEE_OTHER, TEMPORARY_REDIRECT, PERMANENT_REDIRECT}

USER_AGENT == "user-agent"
CONNECTION == "connection"
ACCEPT == "accept"
HeaderNames == {USER_AGENT, CONNECTION, ACCEPT}

\* Headers: name -> Option<value>
EmptyHeaders == [n \in HeaderNames |-> None]
\* Headers::contains
contains(headers, name) == IsSome(headers[name])
\* Headers::set (overwrites)
set(headers, name, value) == [headers EXCEPT ![name] = Some(value)]

\* Url: scheme, Option<host>, Option<port>, path
Url(scheme, host, port, path) == [scheme |-> scheme, host |-> host, port |-> port, path |-> path]

HttpA == Url("http", Some("h"), None, "/a")
HttpPortA == Url("http", Some("h"), Some(8080), "/a")
HttpsA == Url("https", Some("h"), None, "/a")
HttpsPortA == Url("https", Some("h"), Some(8443), "/a")
FtpA == Url("ftp", Some("h"), None, "/a")
HttpNoHost == Url("http", None, None, "/a")

\* the URLs a caller passes to Client::request
CallerUrls == {HttpA, HttpPortA, HttpsPortA, FtpA, HttpNoHost}

\* values of a response's Location header
LocRelB == "/b"
LocHttpsA == "https://h/a"
LocFtpA == "ftp://h/a"
LocNotUtf8 == "<bytes that are not a string>"
LocBadUrl == "http://["
Locations == {LocRelB, LocHttpsA, LocFtpA, LocNotUtf8, LocBadUrl}

\* HeaderValue::to_str: Err where the bytes are no string
to_str(value) == IF value = LocNotUtf8 THEN [ok |-> FALSE, v |-> None] ELSE [ok |-> TRUE, v |-> Some(value)]

\* Url::join: an absolute reference replaces the base, a path reference
\* replaces the base's path, an unparsable reference is an error
join(base, location) ==
  CASE location = LocRelB -> [ok |-> TRUE, v |-> Some([base EXCEPT !.path = "/b"])]
    [] location = LocHttpsA -> [ok |-> TRUE, v |-> Some(HttpsA)]
    [] location = LocFtpA -> [ok |-> TRUE, v |-> Some(FtpA)]
    [] OTHER -> [ok |-> FALSE, v |-> None]

\* Request: method, url, headers
Request(method, url, headers) == [method |-> method, url |-> url, headers |-> headers]

\* Response: status and its Location header
Response(status, location) == [status |-> status, location |-> location]
Responses == {Response(s, l) : s \in Statuses, l \in {None} \cup {Some(x) : x \in Locations}}

(* ---------------- std::io::Error ---------------- *)

IoError(kind, msg, url) == [kind |-> kind, msg |-> msg, url |-> url]

\* crate::utils::invalid_input_error / invalid_data_error
invalid_input_error(msg) == IoError("InvalidInput", msg, None)
invalid_data_error(msg) == IoError("InvalidData", msg, None)

\* Result<T>, with the network operations performed while computing it
Ok(v, log) == [ok |-> TRUE, v |-> Some(v), e |-> None, log |-> log]
Err(e, log) == [ok |-> FALSE, v |-> None, e |-> Some(e), log |-> log]

\* one network operation: resolve, connect, connect_timeout, tls_connect,
\* tls_connect_timeout, write, read
NetOp(op, target) == [op |-> op, target |-> target]

(* ---------------- answers of the environment ---------------- *)

\* lunatic::net::resolve: an error, or the candidate endpoints in order
ResolveAnswers == {[ok |-> FALSE, addrs |-> <<>>]} \cup {[ok |-> TRUE, addrs |-> [k \in 1 .. n |-> k]] : n \in 0 .. MaxAddrs}

\* a connect: the stream opens, the peer refuses, or the timeout expires
\* (only the timed variants time out)
ConnectAnswers(timeout) == {"ok", "refused"} \cup (IF IsSome(timeout) THEN {"timeout"} ELSE {})

\* the candidates whose connect the environment answers: those the resolver
\* returned for an http URL (no other dispatch connects to candidates)
TcpCandidates(url, resolved) == IF url.scheme = "http" THEN DOMAIN resolved.addrs ELSE {}
\* the answers to a TLS connect, which only an https URL can ask for
TlsAnswers(url, timeout) == IF url.scheme = "https" THEN ConnectAnswers(timeout) ELSE {"ok"}

\* the connects among the operations of an attempt, in order
ConnectKinds == {"connect", "connect_timeout", "tls_connect", "tls_connect_timeout"}
IsConnect(o) == o.op \in ConnectKinds
ConnectOps(log) == SelectSeq(log, IsConnect)
\* how many candidates the resolver returned, where it was asked and answered
CandidatesReturned(log, resolved) ==
  IF resolved.ok /\ \E k \in DOMAIN log : log[k].op = "resolve" THEN Some(Len(resolved.addrs)) ELSE None
\* what the transport answered to each connect of the attempt
AnswersGiven(log, conn, tls) ==
  [k \in 1 .. Len(ConnectOps(log)) |->
     IF ConnectOps(log)[k].op \in {"connect", "connect_timeout"} THEN conn[ConnectOps(log)[k].target[1]] ELSE tls]

connect_error(answer) == IF answer = "timeout" THEN IoError("TimedOut", "connect", None) ELSE IoError("ConnectionRefused", "connect", None)

(* ---------------- helpers of client.rs ---------------- *)

\* a default that overwrites the header the request carries
set_header_fallback_overwrites(request, header_name, header_value) ==
  IF IsSome(header_value)
  THEN [request EXCEPT !.headers = set(request.headers, header_name, Unwrap(header_value))]
  ELSE request

\* set_header_fallback
set_header_fallback(request, header_name, header_value) ==
  IF IsSome(header_value) /\ ~contains(request.headers, header_name)
  THEN [request EXCEPT !.headers = set(request.headers, header_name, Unwrap(header_value))]
  ELSE request

\* additional headers that leave the request's own Connection header alone
additional_headers_keeps_connection(request, self_user_agent) ==
  set_header_fallback(set_header_fallback(request, USER_AGENT, self_user_agent), CONNECTION, Some("close"))

\* single_request, "Additional headers"
additional_headers(request, self_user_agent) ==
  LET r == set_header_fallback(request, USER_AGENT, self_user_agent)
  IN [r EXCEPT !.headers = set(r.headers, CONNECTION, "close")]

\* a resolution that always asks for the scheme's default port
get_and_validate_socket_addresses_default_port(url, default_port, resolved) ==
  IF ~IsSome(url.host)
  THEN Err(IoError("Other", "host not set", None), <<>>)
  ELSE IF ~resolved.ok
       THEN Err(IoError("Other", "cant DNS resole the url", None), <<NetOp("resolve", <<Unwrap(url.host), default_port>>)>>)
       ELSE Ok(resolved.addrs, <<NetOp("resolve", <<Unwrap(url.host), default_port>>)>>)

\* get_and_validate_socket_addresses
get_and_validate_socket_addresses(url, default_port, resolved) ==
  LET port == IF IsSome(url.port) THEN Unwrap(url.port) ELSE default_port
  IN IF ~IsSome(url.host)
     THEN Err(IoError("Other", "host not set", None), <<>>)
     ELSE IF ~resolved.ok
          THEN Err(IoError("Other", "cant DNS resole the url", None), <<NetOp("resolve", <<Unwrap(url.host), port>>)>>)
          ELSE Ok(resolved.addrs, <<NetOp("resolve", <<Unwrap(url.host), port>>)>>)

\* a closure that gives up at the first connect that timed out
connect_tcp_step_stops_on_timeout(self_timeout, acc, addr, conn) ==
  IF acc.ok \/ (acc.log # <<>> /\ Unwrap(acc.e).kind = "TimedOut")
  THEN acc
  ELSE LET op == NetOp(IF IsSome(self_timeout) THEN "connect_timeout" ELSE "connect", <<addr>>)
       IN IF conn[addr] = "ok"
          THEN Ok([kind |-> "tcp", peer |-> <<addr>>], Append(acc.log, op))
          ELSE Err(connect_error(conn[addr]), Append(acc.log, op))

\* the closure folded by connect_tcp
connect_tcp_step(self_timeout, acc, addr, conn) ==
  IF acc.ok
  THEN acc
  ELSE LET op == NetOp(IF IsSome(self_timeout) THEN "connect_timeout" ELSE "connect", <<addr>>)
       IN IF conn[addr] = "ok"
          THEN Ok([kind |-> "tcp", peer |-> <<addr>>], Append(acc.log, op))
          ELSE Err(connect_error(conn[addr]), Append(acc.log, op))

RECURSIVE fold(_, _, _, _)
fold(self_timeout, addresses, acc, conn) ==
  IF addresses = <<>>
  THEN acc
  ELSE fold(self_timeout, Tail(addresses), connect_tcp_step(self_timeout, acc, Head(addresses), conn), conn)

\* Client::connect_tcp
connect_tcp(self_timeout, addresses, conn) ==
  fold(self_timeout, addresses, Err(IoError("InvalidInput", "Not able to resolve the provide addresses", None), <<>>), conn)

\* Client::connect_tls
connect_tls(self_timeout, url, tls) ==
  IF ~IsSome(url.host)
  THEN Err(IoError("InvalidInput", "Not able to resolve the provide addresses", None), <<>>)
  ELSE LET host == Unwrap(url.host)
           port == IF IsSome(url.port) THEN Unwrap(url.port) ELSE 443
           op == NetOp(IF IsSome(self_timeout) THEN "tls_connect_timeout" ELSE "tls_connect", <<host, port>>)
       IN IF tls = "ok"
          THEN Ok([kind |-> "tls", peer |-> <<host, port>>], <<op>>)
          ELSE Err(connect_error(tls), <<op>>)

\* a dispatch that resolves the address before it looks at the scheme
open_stream_resolves_first(self_timeout, url, resolved, conn, tls) ==
  LET addresses == get_and_validate_socket_addresses(url, IF url.scheme = "https" THEN 443 ELSE 80, resolved)
  IN IF ~addresses.ok
     THEN addresses
     ELSE CASE url.scheme = "http" ->
                 LET stream == connect_tcp(self_timeout, Unwrap(addresses.v), conn)
                 IN [stream EXCEPT !.log = addresses.log \o stream.log]
            [] url.scheme = "https" ->
                 LET stream == connect_tls(self_timeout, url, tls)
                 IN [stream EXCEPT !.log = addresses.log \o stream.log]
            [] OTHER -> Err(invalid_input_error("Not supported URL scheme"), addresses.log)

\* Client::single_request, the match on the scheme up to the open stream
open_stream(self_timeout, url, resolved, conn, tls) ==
  CASE url.scheme = "http" ->
         LET addresses == get_and_validate_socket_addresses(url, 80, resolved)
         IN IF ~addresses.ok
            THEN addresses
            ELSE LET stream == connect_tcp(self_timeout, Unwrap(addresses.v), conn)
                 IN [stream EXCEPT !.log = addresses.log \o stream.log]
    [] url.scheme = "https" ->
         LET addresses == get_and_validate_socket_addresses(url, 443, resolved)
         IN IF ~addresses.ok
            THEN addresses
            ELSE LET stream == connect_tls(self_timeout, url, tls)
                 IN [stream EXCEPT !.log = addresses.log \o stream.log]
    [] OTHER -> Err(invalid_input_error("Not supported URL scheme"), <<>>)

\* a match that resends a 301, 302 or 303 with the method unchanged
new_method_keeps_method(status, previous_method) ==
  CASE status \in {MOVED_PERMANENTLY, FOUND, SEE_OTHER} -> Some(previous_method)
    [] status \in {TEMPORARY_REDIRECT, PERMANENT_REDIRECT} /\ is_safe(previous_method) ->
         Some(previous_method)
    [] OTHER -> None

\* a match that rewrites every 301, 302 and 303 to GET
new_method_always_get(status, previous_method) ==
  CASE status \in {MOVED_PERMANENTLY, FOUND, SEE_OTHER} -> Some("GET")
    [] status \in {TEMPORARY_REDIRECT, PERMANENT_REDIRECT} /\ is_safe(previous_method) ->
         Some(previous_method)
    [] OTHER -> None

\* a match that follows 307 and 308 whatever the method
new_method_unguarded(status, previous_method) ==
  CASE status \in {MOVED_PERMANENTLY, FOUND, SEE_OTHER} ->
         Some(IF previous_method = "HEAD" THEN "HEAD" ELSE "GET")
    [] status \in {TEMPORARY_REDIRECT, PERMANENT_REDIRECT} -> Some(previous_method)
    [] OTHER -> None

\* a match that follows every response carrying a Location
new_method_follows_any_status(status, previous_method) ==
  CASE status \in {MOVED_PERMANENTLY, FOUND, SEE_OTHER} ->
         Some(IF previous_method = "HEAD" THEN "HEAD" ELSE "GET")
    [] status \in {TEMPORARY_REDIRECT, PERMANENT_REDIRECT} /\ is_safe(previous_method) ->
         Some(previous_method)
    [] OTHER -> Some("GET")

\* Client::request, the match on the response's status: the method of the
\* redirected request, or None where the response is returned
new_method(status, previous_method) ==
  CASE status \in {MOVED_PERMANENTLY, FOUND, SEE_OTHER} ->
         Some(IF previous_method = "HEAD" THEN "HEAD" ELSE "GET")
    [] status \in {TEMPORARY_REDIRECT, PERMANENT_REDIRECT} /\ is_safe(previous_method) ->
         Some(previous_method)
    [] OTHER -> None

\* a resolution that falls back to the request's URL where the Location is bad
new_url_falls_back(url, location) ==
  IF to_str(location).ok /\ join(url, Unwrap(to_str(location).v)).ok
  THEN Ok(Unwrap(join(url, Unwrap(to_str(location).v)).v), <<>>)
  ELSE Ok(url, <<>>)

\* a resolution that ignores the Location header
new_url_ignores_location(url, location) == Ok(url, <<>>)

\* Client::request, the Location header resolved against the request's URL
new_url(url, location) ==
  LET str == to_str(location)
  IN IF ~str.ok
     THEN Err(invalid_data_error("Location is not a string"), <<>>)
     ELSE LET joined == join(url, Unwrap(str.v))
          IN IF ~joined.ok
             THEN Err(invalid_data_error("Invalid URL in Location header"), <<>>)
             ELSE Ok(Unwrap(joined.v), <<>>)

\* a redirected request built without the copy of the headers
redirected_request_without_headers(request, method, url) == Request(method, url, EmptyHeaders)

\* a redirected request that is sent to the URL of the previous one
redirected_request_keeps_url(request, method, url) ==
  Request(method, request.url, [n \in HeaderNames |-> request.headers[n]])

\* Client::request, the redirected request: the new method and URL with
\* every header of the request copied
redirected_request(request, method, url) ==
  Request(method, url, [n \in HeaderNames |-> request.headers[n]])

\* Client::request, the error returned after the loop
too_many_redirects(self_redirection_limit, request) ==
  IoError("Other", "The server requested too many redirects", Some(request.url))

(* ---------------- state ---------------- *)

VARIABLES
  timeout,            \* Client.timeout: Option<Duration>
  user_agent,         \* Client.user_agent: Option<HeaderValue>
  redirection_limit,  \* Client.redirection_limit: usize
  pc,                 \* position of the call: idle, loop, connected, response, done, panicked
  request,            \* Client::request, the local `request`
  range_end,          \* Client::request, the end of the range the loop iterates
  i,                  \* Client::request, the iterations of the loop begun
  previous_method,    \* Client::request, the local `previous_method`
  stream,             \* Client::single_request, the open stream
  response,           \* Client::request, the local `response`
  result,             \* what Client::request returned: Option<Result<Response>>
  netlog,             \* the network operations of the attempt in progress
  caller,             \* the request the caller passed (history)
  sent_url,           \* URL of the last request written to a stream (history)
  attempts,           \* single_request invocations of the call (history)
  follows,            \* redirects the call had to follow (history)
  target,             \* URL the last followed Location resolved to (history)
  candidates,         \* how many endpoints the resolver returned to the dispatch that
                      \* opened the stream or failed the call (history)
  answers,            \* the transport's answers to the connects of that dispatch (history)
  calls               \* the calls of Client::request that share the Client, where
                      \* several run interleaved: call id -> the call's own state

vars == <<timeout, user_agent, redirection_limit, pc, request, range_end, i, previous_method,
          stream, response, result, netlog, caller, sent_url, attempts, follows, target,
          candidates, answers, calls>>

config == <<timeout, user_agent, redirection_limit>>
locals == <<request, range_end, i, previous_method, stream, response, result>>
history == <<netlog, caller, sent_url, attempts, follows, target, candidates, answers>>

NoRequest == Request("GET", HttpA, EmptyHeaders)

\* the calls that share one Client where calls run interleaved
CallIds == {"first", "second"}
\* a call's own state: its position, the locals of Client::request, what it
\* returned, and as history the request passed, the single_request
\* invocations, the answers the environment gave to its attempts and whether
\* it took a step while another call was in progress
Call(position, req, end, iterations, res, passed, invocations, script, beside) ==
  [pc |-> position, request |-> req, range_end |-> end, i |-> iterations, result |-> res,
   caller |-> passed, attempts |-> invocations, script |-> script, beside |-> beside]
NoCall == Call("idle", NoRequest, 0, 0, None, None, 0, <<>>, FALSE)

\* the requests a caller builds
CallerHeaders == {[n \in HeaderNames |-> IF n \in present \cup {ACCEPT} THEN Some("caller") ELSE None] : present \in SUBSET {USER_AGENT, CONNECTION}}
CallerRequests == {Request(m, u, h) : m \in Methods, u \in CallerUrls, h \in CallerHeaders}

\* Client::new
Init ==
  /\ timeout = None
  /\ user_agent = None
  /\ redirection_limit = 0
  /\ pc = "idle"
  /\ request = NoRequest
  /\ range_end = 0
  /\ i = 0
  /\ previous_method = None
  /\ stream = None
  /\ response = None
  /\ result = None
  /\ netlog = <<>>
  /\ caller = None
  /\ sent_url = None
  /\ attempts = 0
  /\ follows = 0
  /\ target = None
  /\ candidates = None
  /\ answers = <<>>
  /\ calls = [c \in CallIds |-> NoCall]

(* ---------------- configuration ---------------- *)

\* an error that is dropped, the loop going on
swallow(e) ==
  /\ pc' = "loop"
  /\ UNCHANGED result

\* the `?` operator in Client::request: the error ends the call
propagate(e) ==
  /\ result' = Some(Err(e, <<>>))
  /\ pc' = "done"

\* `return Ok(response)` in Client::request
return_ok(resp) ==
  /\ result' = Some(Ok(resp, <<>>))
  /\ pc' = "done"

\* a loop that runs once more than the range allows
loop_continues_inclusive(iterations, end) == iterations <= end

\* the condition of `for _ in 0..(self.redirection_limit + 1)`
loop_continues(iterations, end) == iterations < end

\* a range that forgets the first attempt
loop_range_end_without_first(limit) == limit

\* the end of the range, `self.redirection_limit + 1`, where it does not panic
loop_range_end(limit) == wrapping_add(limit, 1)

\* Client::set_global_timeout
set_global_timeout ==
  /\ pc = "idle"
  /\ timeout' = Some(5)
  /\ UNCHANGED <<user_agent, redirection_limit, pc, locals, history, calls>>

\* Client::set_user_agent
set_user_agent ==
  /\ pc = "idle"
  /\ user_agent' = Some("OxHTTP/1.0")
  /\ UNCHANGED <<timeout, redirection_limit, pc, locals, history, calls>>

\* Client::set_redirection_limit
set_redirection_limit ==
  /\ pc = "idle"
  /\ \E limit \in Usize : redirection_limit' = limit
  /\ UNCHANGED <<timeout, user_agent, pc, locals, history, calls>>

(* ---------------- Client::request ---------------- *)

\* the call is entered and the range 0..(redirection_limit + 1) is evaluated:
\* where the sum does not fit the word, a build with overflow checks panics
\* and a build without them wraps
request_enter ==
  /\ pc = "idle"
  /\ \E r \in CallerRequests :
       /\ request' = r
       /\ caller' = Some(r)
  /\ \/ /\ add_overflows(redirection_limit, 1)
        /\ pc' = "panicked"
        /\ UNCHANGED range_end
     \/ /\ range_end' = loop_range_end(redirection_limit)
        /\ pc' = "loop"
  /\ UNCHANGED <<config, i, previous_method, stream, response, result, netlog, sent_url, attempts, follows, target, candidates, answers, calls>>

\* one iteration begins: previous_method is taken and single_request runs
\* up to the open stream (additional headers, scheme, resolution, connect)
single_request ==
  /\ pc = "loop"
  /\ loop_continues(i, range_end)
  /\ i' = i + 1
  /\ attempts' = attempts + 1
  /\ previous_method' = Some(request.method)
  /\ request' = additional_headers(request, user_agent)
  /\ \E resolved \in ResolveAnswers :
     \E conn \in [TcpCandidates(request.url, resolved) -> ConnectAnswers(timeout)] :
     \E tls \in TlsAnswers(request.url, timeout) :
       LET opened == open_stream(timeout, request'.url, resolved, conn, tls)
       IN /\ netlog' = opened.log
          /\ candidates' = CandidatesReturned(opened.log, resolved)
          /\ answers' = AnswersGiven(opened.log, conn, tls)
          /\ IF opened.ok
             THEN /\ stream' = opened.v
                  /\ pc' = "connected"
                  /\ UNCHANGED result
             ELSE /\ propagate(Unwrap(opened.e))
                  /\ UNCHANGED stream
  /\ UNCHANGED <<config, range_end, response, caller, sent_url, follows, target, calls>>

\* single_request, encode_request and decode_response on the open stream
exchange ==
  /\ pc = "connected"
  /\ stream' = None
  /\ candidates' = None
  /\ answers' = <<>>
  /\ \/ \* encode_request fails
        /\ netlog' = Append(netlog, NetOp("write", <<>>))
        /\ propagate(IoError("Other", "encode_request", None))
        /\ UNCHANGED <<response, sent_url>>
     \/ \* decode_response fails
        /\ netlog' = netlog \o <<NetOp("write", <<>>), NetOp("read", <<>>)>>
        /\ sent_url' = Some(request.url)
        /\ propagate(IoError("InvalidData", "decode_response", None))
        /\ UNCHANGED response
     \/ \* a response is decoded
        /\ netlog' = netlog \o <<NetOp("write", <<>>), NetOp("read", <<>>)>>
        /\ sent_url' = Some(request.url)
        /\ \E r \in Responses : response' = Some(r)
        /\ pc' = "response"
        /\ UNCHANGED result
  /\ UNCHANGED <<config, request, range_end, i, previous_method, caller, attempts, follows, target, calls>>

\* the body of the loop after single_request: the response is returned, or
\* the request is rebuilt for the redirect and the loop goes on
redirect ==
  /\ pc = "response"
  /\ LET resp == Unwrap(response)
         method == new_method(resp.status, Unwrap(previous_method))
     IN IF ~IsSome(resp.location) \/ ~IsSome(method)
        THEN /\ return_ok(resp)
             /\ UNCHANGED <<request, follows, netlog, target, candidates, answers>>
        ELSE LET url == new_url(request.url, Unwrap(resp.location))
             IN IF ~url.ok
                THEN /\ propagate(Unwrap(url.e))
                     /\ UNCHANGED <<request, follows, netlog, target, candidates, answers>>
                ELSE /\ request' = redirected_request(request, Unwrap(method), Unwrap(url.v))
                     /\ follows' = follows + 1
                     /\ target' = join(request.url, Unwrap(resp.location)).v
                     /\ netlog' = <<>>
                     /\ candidates' = None
                     /\ answers' = <<>>
                     /\ pc' = "loop"
                     /\ UNCHANGED result
  /\ response' = None
  /\ previous_method' = None
  /\ UNCHANGED <<config, range_end, i, stream, caller, sent_url, attempts, calls>>

\* the loop is over: the error after it is returned
loop_exit ==
  /\ pc = "loop"
  /\ ~loop_continues(i, range_end)
  /\ result' = Some(Err(too_many_redirects(redirection_limit, request), <<>>))
  /\ pc' = "done"
  /\ UNCHANGED <<config, request, range_end, i, previous_method, stream, response, history, calls>>

Next ==
  \/ set_global_timeout
  \/ set_user_agent
  \/ set_redirection_limit
  \/ request_enter
  \/ single_request
  \/ exchange
  \/ redirect
  \/ loop_exit

Spec == Init /\ [][Next]_vars

(* ---------------- calls that share the Client ---------------- *)

\* what the environment answers to one attempt: the resolver, the transport
\* to each connect, and the decoded response or the failure of the exchange
Attempt(resolved, conn, tls, decoded) ==
  [resolved |-> resolved, conn |-> conn, tls |-> tls, decoded |-> decoded]
Refused == Attempt([ok |-> TRUE, addrs |-> <<1>>], <<"refused">>, "ok", Ok(Response(OK, None), <<>>))
Answered(resp) == Attempt([ok |-> TRUE, addrs |-> <<1>>], <<"ok">>, "ok", Ok(resp, <<>>))
SharedAttempts == {Refused, Answered(Response(OK, None)), Answered(Response(FOUND, Some(LocRelB)))}

\* the requests the callers of the shared Client pass
SharedRequests == {Request("GET", HttpA, set(EmptyHeaders, ACCEPT, "caller")),
                   Request("POST", HttpPortA, set(EmptyHeaders, ACCEPT, "caller"))}

\* an iteration counter that is a field of the shared Client
call_iterations_shared(cs, c) == cs["first"].i + cs["second"].i

\* the iterator of `for _ in 0..(self.redirection_limit + 1)`: a local of the call
call_iterations(cs, c) == cs[c].i

\* the body of the loop in Client::request as a function of the request and
\* of the environment's answers: the result returned, or None and the
\* request the next iteration sends
call_iteration(self_timeout, self_user_agent, req, env) ==
  LET sent == additional_headers(req, self_user_agent)
      opened == open_stream(self_timeout, sent.url, env.resolved, env.conn, env.tls)
  IN IF ~opened.ok
     THEN [result |-> Some(Err(Unwrap(opened.e), <<>>)), request |-> sent]
     ELSE IF ~env.decoded.ok
     THEN [result |-> Some(Err(Unwrap(env.decoded.e), <<>>)), request |-> sent]
     ELSE LET resp == Unwrap(env.decoded.v)
              method == new_method(resp.status, req.method)
          IN IF ~IsSome(resp.location) \/ ~IsSome(method)
             THEN [result |-> Some(Ok(resp, <<>>)), request |-> sent]
             ELSE LET url == new_url(sent.url, Unwrap(resp.location))
                  IN IF ~url.ok
                     THEN [result |-> Some(Err(Unwrap(url.e), <<>>)), request |-> sent]
                     ELSE [result |-> None,
                           request |-> redirected_request(sent, Unwrap(method), Unwrap(url.v))]

\* Client::request run from iteration `iterations` on, alone, against the
\* answers of `script`: what it returns (None where the script ends before
\* the call does) and the single_request invocations it made
RECURSIVE run_alone(_, _, _, _, _, _, _)
run_alone(self_timeout, self_user_agent, self_limit, req, iterations, end, script) ==
  IF ~loop_continues(iterations, end)
  THEN [result |-> Some(Err(too_many_redirects(self_limit, req), <<>>)), attempts |-> iterations]
  ELSE IF script = <<>>
  THEN [result |-> None, attempts |-> iterations]
  ELSE LET it == call_iteration(self_timeout, self_user_agent, req, Head(script))
       IN IF IsSome(it.result)
          THEN [result |-> it.result, attempts |-> iterations + 1]
          ELSE run_alone(self_timeout, self_user_agent, self_limit, it.request,
                         iterations + 1, end, Tail(script))

InProgress(cs, c) == cs[c].pc = "loop"
OtherInProgress(cs, c) == \E d \in CallIds \ {c} : InProgress(cs, d)
NoCallEntered == \A c \in CallIds : calls[c].pc = "idle"

single_call == <<pc, locals, history>>

\* the setters take `&mut self`: no call holds the Client while one runs
shared_set_global_timeout == NoCallEntered /\ set_global_timeout
shared_set_user_agent == NoCallEntered /\ set_user_agent
shared_set_redirection_limit == NoCallEntered /\ set_redirection_limit

\* call c enters Client::request on the shared Client; every call runs in
\* the same build, which panics on the overflow of the range's end or wraps
shared_request_enter(c) ==
  /\ calls[c].pc = "idle"
  /\ \E r \in SharedRequests :
       \/ /\ add_overflows(redirection_limit, 1)
          /\ \A d \in CallIds : calls[d].pc \in {"idle", "panicked"}
          /\ calls' = [calls EXCEPT ![c] = Call("panicked", r, 0, 0, None, Some(r), 0, <<>>,
                                                OtherInProgress(calls, c))]
       \/ /\ \A d \in CallIds : calls[d].pc # "panicked"
          /\ calls' = [calls EXCEPT ![c] = Call("loop", r, loop_range_end(redirection_limit), 0, None,
                                                Some(r), 0, <<>>, OtherInProgress(calls, c))]
  /\ UNCHANGED <<config, single_call>>

\* call c runs one iteration of its loop against the environment's answers
shared_iteration(c) ==
  /\ calls[c].pc = "loop"
  /\ loop_continues(call_iterations(calls, c), calls[c].range_end)
  /\ \E env \in SharedAttempts :
       LET it == call_iteration(timeout, user_agent, calls[c].request, env)
       IN calls' = [calls EXCEPT ![c] =
                      Call(IF IsSome(it.result) THEN "done" ELSE "loop", it.request,
                           calls[c].range_end, calls[c].i + 1, it.result, calls[c].caller,
                           calls[c].attempts + 1, Append(calls[c].script, env),
                           calls[c].beside \/ OtherInProgress(calls, c))]
  /\ UNCHANGED <<config, single_call>>

\* the loop of call c is over: the error after it is returned
shared_loop_exit(c) ==
  /\ calls[c].pc = "loop"
  /\ ~loop_continues(call_iterations(calls, c), calls[c].range_end)
  /\ calls' = [calls EXCEPT ![c] =
                 Call("done", calls[c].request, calls[c].range_end, calls[c].i,
                      Some(Err(too_many_redirects(redirection_limit, calls[c].request), <<>>)),
                      calls[c].caller, calls[c].attempts, calls[c].script,
                      calls[c].beside \/ OtherInProgress(calls, c))]
  /\ UNCHANGED <<config, single_call>>

NextShared ==
  \/ shared_set_global_timeout
  \/ shared_set_user_agent
  \/ shared_set_redirection_limit
  \/ \E c \in CallIds : shared_request_enter(c)
  \/ \E c \in CallIds : shared_iteration(c)
  \/ \E c \in CallIds : shared_loop_exit(c)

SpecShared == Init /\ [][NextShared]_vars

(* ---------------- properties ---------------- *)

\* the response asks for a redirect that a request with this method follows
Followable(resp, method) ==
  /\ IsSome(resp.location)
  /\ \/ resp.status \in {301, 302, 303}
     \/ resp.status \in {307, 308} /\ method \in {"GET", "HEAD", "OPTIONS"}

\* the Location value is a string that joins to the URL
LocationResolves(url, location) == location \in {LocRelB, LocHttpsA, LocFtpA}
ResolvedUrl(url, location) == Unwrap(join(url, location).v)

Returned == pc = "done" /\ IsSome(result)
ReturnedOk == Returned /\ Unwrap(result).ok
ReturnedErr == Returned /\ ~Unwrap(result).ok
ReturnedError == Unwrap(Unwrap(result).e)
TooManyRedirects == ReturnedErr /\ ReturnedError.msg = "The server requested too many redirects"

\* C1: at every point of a call the number of single_request invocations made
\* so far is at most the redirection limit + 1 (so at most one with limit 0)
C1_AttemptsWithinLimit == attempts <= redirection_limit + 1

C1_Witness == pc = "done" /\ redirection_limit = 2 /\ attempts = 3 /\ follows = 2

\* C2: a followable redirect whose Location resolves, received with fewer than
\* limit + 1 attempts made, is followed by exactly one further attempt against
\* the resolved URL, and the call returns the first response that is not
\* followed, with no attempt after it
C2_FollowThenReturn ==
  [][/\ (/\ pc = "response"
         /\ Followable(Unwrap(response), request.method)
         /\ LocationResolves(request.url, Unwrap(Unwrap(response).location))
         /\ attempts < redirection_limit + 1)
        => (/\ pc' = "loop"
            /\ attempts' = attempts
            /\ request'.url = ResolvedUrl(request.url, Unwrap(Unwrap(response).location)))
     /\ (pc = "loop" /\ follows >= 1 /\ attempts < redirection_limit + 1)
        => (/\ attempts' = attempts + 1
            /\ request'.url = request.url
            /\ Some(request.url) = target)
     /\ (pc = "response" /\ ~Followable(Unwrap(response), request.method))
        => (/\ pc' = "done"
            /\ attempts' = attempts
            /\ result' = Some(Ok(Unwrap(response), <<>>)))
     /\ (pc = "response" /\ pc' = "done" /\ Unwrap(result').ok)
        => ~Followable(Unwrap(response), request.method)
     /\ pc # "done"]_vars

\* a GET answered by a redirect to /b, where /b answers 200: 200 after 2 attempts
C2_Witness ==
  /\ ReturnedOk
  /\ redirection_limit >= 1
  /\ Unwrap(caller).method = "GET"
  /\ Unwrap(caller).url = HttpA
  /\ request.url = [HttpA EXCEPT !.path = "/b"]
  /\ Unwrap(Unwrap(result).v).status = 200
  /\ attempts = 2
  /\ follows = 1

\* C3 as stated: a call that fails with TooManyRedirects at a required follow
\* fails at the (N+2)-th one, for redirection limit N
C3_FailsAtFollowNPlus2 == (TooManyRedirects /\ follows >= 1) => follows = redirection_limit + 2

\* C3, amended: a call that returned has failed with TooManyRedirects exactly
\* when the number of follows required is redirection limit + 1, the sum
\* taken in the machine word
C3_FailsAtFollowNPlus1 ==
  Returned => (TooManyRedirects <=> follows = (redirection_limit + 1) % UsizeModulus)

C3_Witness == TooManyRedirects /\ redirection_limit = 1 /\ follows = 2 /\ attempts = 2

\* C4 as stated: the URL in a TooManyRedirects error is the URL of the last
\* request sent over the network in the call
C4_ErrorUrlIsLastSent == (TooManyRedirects /\ IsSome(sent_url)) => ReturnedError.url = sent_url

\* C4, amended: the URL in a TooManyRedirects error is the URL the Location of
\* the last response resolved to, for which no request was made (the caller's
\* URL where the call made no attempt at all)
C4_ErrorUrlIsLastTarget ==
  TooManyRedirects => ReturnedError.url = (IF follows = 0 THEN Some(Unwrap(caller).url) ELSE target)

C4_Witness == TooManyRedirects /\ follows >= 1 /\ IsSome(sent_url) /\ target # sent_url /\ ReturnedError.url = target

\* the step hands the call's request to single_request
AttemptBegins == pc = "loop" /\ attempts' = attempts + 1
\* the step is the redirect decision that rebuilds the request
RedirectFollowed == pc = "response" /\ pc' = "loop"

\* C5: when a 301, 302 or 303 is followed, the next request's method is HEAD
\* if the caller's request used HEAD and GET otherwise, whatever the method of
\* the attempt that received the redirect
C5_MethodAfter301To303 ==
  [][/\ (RedirectFollowed /\ Unwrap(response).status \in {301, 302, 303})
        => request'.method = (IF Unwrap(caller).method = "HEAD" THEN "HEAD" ELSE "GET")
     /\ AttemptBegins => request'.method = request.method]_vars

\* a POST redirected by 301, 302 or 303 (a 307 or 308 is not followed for
\* POST) is being resent as GET
C5_Witness ==
  /\ pc = "connected"
  /\ attempts = 2
  /\ Unwrap(caller).method = "POST"
  /\ request.method = "GET"

\* C6: a 307 or 308 with a Location is followed only if the method of the
\* attempt is safe, and then with the same method; for an unsafe method the
\* response is returned as the result and no further attempt occurs
C6_TemporaryAndPermanentRedirect ==
  [][/\ (/\ pc = "response"
         /\ Unwrap(response).status \in {307, 308}
         /\ IsSome(Unwrap(response).location))
        => /\ RedirectFollowed
              => (request.method \in {"GET", "HEAD", "OPTIONS"} /\ request'.method = request.method)
           /\ request.method \notin {"GET", "HEAD", "OPTIONS"}
              => (/\ pc' = "done"
                  /\ result' = Some(Ok(Unwrap(response), <<>>))
                  /\ attempts' = attempts)
     /\ AttemptBegins => request'.method = request.method
     /\ pc # "done"]_vars

C6_Witness ==
  /\ ReturnedOk
  /\ Unwrap(Unwrap(result).v).status = 307
  /\ IsSome(Unwrap(Unwrap(result).v).location)
  /\ request.method = "POST"
  /\ redirection_limit = 2
  /\ attempts = 1

\* C7: a response without a Location, or with a Location and a status other
\* than 301, 302, 303, 307, 308, ends the call successfully with that response
\* and no further attempt, whatever the limit
C7_NotARedirect ==
  [][/\ (/\ pc = "response"
         /\ \/ ~IsSome(Unwrap(response).location)
            \/ Unwrap(response).status \notin {301, 302, 303, 307, 308})
        => (/\ pc' = "done"
            /\ result' = Some(Ok(Unwrap(response), <<>>))
            /\ attempts' = attempts)
     /\ pc # "done"]_vars

C7_Witness ==
  /\ ReturnedOk
  /\ Unwrap(Unwrap(result).v).status = 200
  /\ Unwrap(Unwrap(result).v).location = Some(LocRelB)
  /\ redirection_limit = 2
  /\ attempts = 1

\* the step is an attempt that fails: single_request ends without an open
\* stream, or the exchange on the stream ends without a response
AttemptFails ==
  \/ AttemptBegins /\ stream' = None
  \/ pc = "connected" /\ response' = None

\* C8: a failed attempt ends the call at once with a failure other than
\* TooManyRedirects: no Response is returned and no attempt follows
C8_FailureIsFinal ==
  [][/\ AttemptFails
        => (/\ pc' = "done"
            /\ IsSome(result')
            /\ ~Unwrap(result').ok
            /\ Unwrap(result').v = None
            /\ Unwrap(Unwrap(result').e).msg # "The server requested too many redirects"
            /\ attempts' <= attempts + 1)
     /\ pc # "done"]_vars

\* the second attempt failed with redirect budget left
C8_Witness ==
  /\ ReturnedErr
  /\ ~TooManyRedirects
  /\ ReturnedError.kind \in {"Other", "ConnectionRefused", "TimedOut"}
  /\ attempts = 2
  /\ redirection_limit = 2

\* the User-Agent the outgoing requests of the call must carry
ExpectedUserAgent ==
  IF IsSome(Unwrap(caller).headers[USER_AGENT]) THEN Unwrap(caller).headers[USER_AGENT] ELSE user_agent

\* C9: on every attempt the request handed to the transport carries the
\* caller's User-Agent if the caller set one, else the configured default if
\* there is one, else none
C9_UserAgent ==
  pc \in {"connected", "response"} => request.headers[USER_AGENT] = ExpectedUserAgent

\* a redirected request carrying the configured default
C9_Witness ==
  /\ pc = "connected"
  /\ attempts = 2
  /\ ~IsSome(Unwrap(caller).headers[USER_AGENT])
  /\ request.headers[USER_AGENT] = Some("OxHTTP/1.0")

\* C10: an attempt on a URL whose scheme is neither http nor https fails with
\* InvalidInput without any network operation, on the first attempt and on an
\* attempt reached by a redirect
C10_UnsupportedScheme ==
  [][(AttemptBegins /\ request.url.scheme \notin {"http", "https"})
       => (/\ pc' = "done"
           /\ IsSome(result')
           /\ ~Unwrap(result').ok
           /\ Unwrap(Unwrap(result').e).kind = "InvalidInput"
           /\ netlog' = <<>>
           /\ stream' = None
           /\ sent_url' = sent_url)]_vars

\* a redirect to an ftp URL was followed and the attempt on it failed
C10_Witness ==
  /\ ReturnedErr
  /\ ReturnedError.kind = "InvalidInput"
  /\ request.url = FtpA
  /\ Unwrap(caller).url = HttpA
  /\ attempts = 2
  /\ netlog = <<>>

\* the port an attempt on the URL must resolve and connect to
SchemeDefaultPort(url) == IF url.scheme = "https" THEN 443 ELSE 80
ExpectedPort(url) == IF url.port # None THEN url.port[1] ELSE SchemeDefaultPort(url)

\* C11: the port every resolution and every TLS connect of an attempt targets
\* is the URL's explicit port where it has one, else 80 for http and 443 for
\* https
C11_TargetPort ==
  \A k \in DOMAIN netlog :
    netlog[k].op \in {"resolve", "tls_connect", "tls_connect_timeout"}
      => netlog[k].target = <<request.url.host[1], ExpectedPort(request.url)>>

\* an https URL with an explicit port was resolved and connected to on it
C11_Witness ==
  /\ pc = "connected"
  /\ request.url = HttpsPortA
  /\ Len(netlog) = 2
  /\ netlog[1] = NetOp("resolve", <<"h", 8443>>)
  /\ netlog[2].target = <<"h", 8443>>

\* C12: when a redirect is followed, the new request carries every header
\* of the request just sent with the same value, the applied defaults
\* included, also when the scheme or host changes
C12_HeadersCarriedOver ==
  [][RedirectFollowed
       => (/\ \A n \in HeaderNames : request'.headers[n] = request.headers[n]
           /\ request.headers[CONNECTION] = Some("close"))]_vars

\* a redirect from http to https carried the caller's headers and the defaults
C12_Witness ==
  /\ pc = "loop"
  /\ follows = 1
  /\ Unwrap(caller).url = HttpA
  /\ request.url = HttpsA
  /\ request.headers[ACCEPT] = Some("caller")
  /\ request.headers[USER_AGENT] = Some("OxHTTP/1.0")
  /\ request.headers[CONNECTION] = Some("close")

\* C13: every request handed to the transport carries Connection: close,
\* whatever Connection value the caller's request carried
C13_ConnectionClose ==
  pc \in {"connected", "response"} => request.headers[CONNECTION] = Some("close")

C13_Witness ==
  /\ pc = "connected"
  /\ Unwrap(caller).headers[CONNECTION] = Some("caller")
  /\ request.headers[CONNECTION] = Some("close")
  /\ attempts = 1

\* C15 as stated: an attempt on an http or https URL without a host fails
\* before any resolution or connect, with the InvalidInput kind of an
\* unsupported scheme
C15_MissingHostIsInvalidInput ==
  (/\ ReturnedErr
   /\ ~TooManyRedirects
   /\ request.url.scheme \in {"http", "https"}
   /\ request.url.host = None)
    => (netlog = <<>> /\ ReturnedError.kind = "InvalidInput")

\* the response carries a Location that is no string or joins to no URL
BadLocation(resp) == resp.location \in {Some(LocNotUtf8), Some(LocBadUrl)}
InvalidRedirectTarget(e) == e.msg \in {"Location is not a string", "Invalid URL in Location header"}

\* C16: a Location that is malformed or cannot be joined fails the call with
\* the invalid-redirect-target error and no further attempt exactly when the
\* response would be followed; a response that is not followed is returned
\* whatever its Location
C16_BadLocation ==
  [][/\ (pc = "response" /\ BadLocation(Unwrap(response)))
        => IF Followable(Unwrap(response), request.method)
           THEN /\ pc' = "done"
                /\ ~Unwrap(result').ok
                /\ InvalidRedirectTarget(Unwrap(Unwrap(result').e))
                /\ Unwrap(Unwrap(result').e).kind = "InvalidData"
                /\ attempts' = attempts
           ELSE /\ pc' = "done"
                /\ result' = Some(Ok(Unwrap(response), <<>>))
                /\ attempts' = attempts
     /\ (/\ pc' = "done"
         /\ ~Unwrap(result').ok
         /\ InvalidRedirectTarget(Unwrap(Unwrap(result').e)))
        => (/\ pc = "response"
            /\ BadLocation(Unwrap(response))
            /\ Followable(Unwrap(response), request.method))
     /\ pc # "done"]_vars

\* the first response was followable with a Location that joins to no URL,
\* with redirect budget left
C16_Witness ==
  /\ ReturnedErr
  /\ ReturnedError.msg = "Invalid URL in Location header"
  /\ attempts = 1
  /\ redirection_limit = 2

\* C19: every request built for a redirect has a safe method, so only the
\* first attempt can be sent with an unsafe one, and a call whose method is
\* GET keeps GET on every later hop
C19_SafeAfterFirst ==
  [][/\ follows' >= 1 => request'.method \in {"GET", "HEAD", "OPTIONS"}
     /\ (pc # "idle" /\ request.method = "GET") => request'.method = "GET"]_vars

\* a POST is on its third attempt, as GET
C19_Witness ==
  /\ pc = "connected"
  /\ attempts = 3
  /\ Unwrap(caller).method = "POST"
  /\ request.method = "GET"

\* C20 as stated: for every redirection limit, the maximum of the word
\* included, a call that returned made at least one attempt, so
\* TooManyRedirects is not returned where no request was sent
C20_AttemptBeforeReturn == Returned => attempts >= 1

\* the dispatch of the attempt got candidates from the resolver and the call
\* stands right after it: the stream is open, or the dispatch failed the call
Dispatched == candidates # None /\ (pc = "connected" \/ ReturnedErr)
NoExchange == \A k \in DOMAIN netlog : netlog[k].op \notin {"write", "read"}

\* first success, else last failure, over the candidates in resolver order
FirstSuccessElseLastFailure ==
  /\ Len(answers) <= candidates[1]
  /\ \A k \in DOMAIN answers :
       /\ ConnectOps(netlog)[k].op \in {"connect", "connect_timeout"}
            => ConnectOps(netlog)[k].target = <<k>>
       /\ answers[k] = "ok" => k = Len(answers)
  /\ IF answers # <<>> /\ answers[Len(answers)] = "ok"
     THEN pc = "connected" /\ stream # None
     ELSE /\ Len(answers) = candidates[1]
          /\ ReturnedErr
          /\ NoExchange
          /\ IF candidates[1] = 0
             THEN ReturnedError.msg = "Not able to resolve the provide addresses"
             ELSE ReturnedError = connect_error(answers[Len(answers)])

\* C14 as stated: for http and for https a dispatch tries the candidates in
\* resolver order, returns the stream of the first whose connect succeeds
\* without a connect to a later one, returns the error of the last candidate
\* where all fail, and a synthetic error without any connect where there is
\* no candidate
C14_FirstSuccessElseLastFailure == Dispatched => FirstSuccessElseLastFailure

\* C17 as stated: a timeout during any phase of an attempt, the connect to
\* one candidate included, fails the call with no further connect or send
C17_TimeoutEndsCall ==
  \A k \in DOMAIN answers :
    answers[k] = "timeout" => (k = Len(answers) /\ ReturnedErr /\ NoExchange)

\* C17, amended: a timeout on the connect to a candidate that is not the last
\* one the resolver returned makes connect_tcp try the next candidate; a
\* timeout on the last candidate, or on the TLS connect, fails the call with
\* the timeout error and no further connect or send
C17_TimeoutOnLastCandidateEndsCall ==
  \A k \in DOMAIN answers :
    answers[k] = "timeout"
      => IF request.url.scheme = "http" /\ k < candidates[1]
         THEN Len(answers) > k
         ELSE /\ k = Len(answers)
              /\ ReturnedErr
              /\ ReturnedError.kind = "TimedOut"
              /\ NoExchange

\* the connect to the second and last candidate timed out after the first was
\* refused, and the call failed on its second attempt
C17_Witness ==
  /\ ReturnedErr
  /\ answers = <<"refused", "timeout">>
  /\ candidates = Some(2)
  /\ ReturnedError.kind = "TimedOut"
  /\ attempts = 2
  /\ redirection_limit = 2

\* C14 for http alone
FirstSuccessElseLastFailureHttp == (Dispatched /\ request.url.scheme = "http") => FirstSuccessElseLastFailure

(* C18: calls that share one Client leave its configuration alone, and each
   call's result and number of single_request invocations are those that
   Client::request has when it runs alone against the answers that call got *)
RunAlone(cs, c) ==
  run_alone(timeout, user_agent, redirection_limit, Unwrap(cs[c].caller), 0,
            loop_range_end(redirection_limit), cs[c].script)

AsAlone(cs, c) ==
  CASE cs[c].pc = "done" ->
         /\ RunAlone(cs, c).result = cs[c].result
         /\ RunAlone(cs, c).attempts = cs[c].attempts
    [] cs[c].pc = "panicked" -> add_overflows(redirection_limit, 1) /\ cs[c].attempts = 0
    [] OTHER -> TRUE

C18_SharedClient ==
  [][\A c \in CallIds :
       calls'[c] # calls[c] =>
         /\ UNCHANGED config
         /\ \A d \in CallIds \ {c} : calls'[d] = calls[d]
         /\ calls'[c].attempts \in {calls[c].attempts, calls[c].attempts + 1}
         /\ AsAlone(calls', c)]_vars

C18_Witness ==
  /\ redirection_limit = 1
  /\ \A c \in CallIds : calls[c].pc = "done" /\ calls[c].beside /\ calls[c].attempts = 2
  /\ calls["first"].result = Some(Ok(Response(OK, None), <<>>))
  /\ calls["second"].result # None /\ Unwrap(calls["second"].result).e # None
  /\ Unwrap(Unwrap(calls["second"].result).e).msg = "The server requested too many redirects"

====
